---- MODULE Spec2Model ----
(***************************************************************************)
(* Model of documentation_bot.py: RepositoryAnalyzer (the repository       *)
(* classification engine), DocumentationGenerator and DocumentationBot.    *)
(*                                                                         *)
(* Text is modelled as sequences of one-character strings, so that         *)
(* str.lower, Path.suffix, str.split, str.strip, str.startswith and the    *)
(* substring test are computed and not assumed.  A path is the sequence of *)
(* its segments (Path.parts).                                              *)
(***************************************************************************)
EXTENDS Integers, Sequences, FiniteSets, TLC

VARIABLES rootKind,   \* what the path given to the constructor is on disk
          rootParts,  \* Path(repo_path).parts, as the caller wrote the path
          entries,    \* what repo_path.rglob('*') yields, in the order it yields it
          pc,         \* "new", "ready", "walking", "returned", "raised"
          idx,        \* position of the for loop of analyze in entries
          result,     \* the result dictionary analyze builds
          profile,    \* the dictionaries analyze has returned, oldest first
          exc,        \* the exception that left the analyzer, "none" if none
          botArgs,    \* the arguments DocumentationBot is constructed with
          bot,        \* <<>> until DocumentationBot.__init__ has run, then <<its outcome>>
          environ,    \* whether openai was imported and OPENAI_API_KEY is set
          generator,  \* <<>> until a DocumentationGenerator is constructed, then <<it>>
          disk,       \* README.md, docs and the files of docs under repo_path
          llm_log,    \* the requests sent to openai.ChatCompletion.create, oldest first
          lastCall    \* the last call of a generator or bot method and how it ended

vars == <<rootKind, rootParts, entries, pc, idx, result, profile, exc, botArgs, bot,
          environ, generator, disk, llm_log, lastCall>>

\* The state DocumentationGenerator and generate_documentation work on.
docVars == <<environ, generator, disk, llm_log, lastCall>>

-----------------------------------------------------------------------------
(* Bounds *)

\* Largest number of entries rglob yields in one modelled tree.
MaxEntries == 2

\* Largest number of analyze calls on one analyzer.
MaxScans == 2

\* Largest max_llm_calls a DocumentationBot is constructed with.
MaxCallsArg == 2

-----------------------------------------------------------------------------
(* Generic helpers *)

\* The largest element of a set of numbers (str.rfind in Path.suffix).
Max(S) == CHOOSE m \in S : \A n \in S : m >= n

\* All orders in which list(a_set) may enumerate the set.
Perms(S) == {s \in [1..Cardinality(S) -> S] : \A i, j \in 1..Cardinality(S) : s[i] = s[j] => i = j}

-----------------------------------------------------------------------------
(* str and pathlib operations *)

UpperChars == <<"A", "B", "C", "D", "E", "F", "G", "H", "I", "J", "K", "L", "M", "N", "O", "P", "Q", "R", "S", "T", "U", "V", "W", "X", "Y", "Z">>

LowerChars == <<"a", "b", "c", "d", "e", "f", "g", "h", "i", "j", "k", "l", "m", "n", "o", "p", "q", "r", "s", "t", "u", "v", "w", "x", "y", "z">>

\* str.lower on one character.
LowerChar(c) ==
    IF \E i \in DOMAIN UpperChars : UpperChars[i] = c
    THEN LowerChars[CHOOSE i \in DOMAIN UpperChars : UpperChars[i] = c]
    ELSE c

\* str.lower
lower(s) == [i \in DOMAIN s |-> LowerChar(s[i])]

\* Path.name: the last segment.
name(parts) == parts[Len(parts)]

\* Path.suffix: from the last dot of the name on, unless that dot is the
\* first or the last character of the name (then the empty string).
suffix(parts) ==
    LET n == name(parts)
        dots == {i \in DOMAIN n : n[i] = "."}
    IN  IF dots = {} THEN <<>>
        ELSE IF Max(dots) > 1 /\ Max(dots) < Len(n)
             THEN SubSeq(n, Max(dots), Len(n))
             ELSE <<>>

\* The characters str.strip() removes that occur in the modelled texts.
Whitespace == {" ", "\t", "\r", "\n"}

RECURSIVE lstrip(_)
lstrip(s) == IF s # <<>> /\ Head(s) \in Whitespace THEN lstrip(Tail(s)) ELSE s

RECURSIVE rstrip(_)
rstrip(s) ==
    IF s # <<>> /\ s[Len(s)] \in Whitespace THEN rstrip(SubSeq(s, 1, Len(s) - 1)) ELSE s

\* str.strip()
strip(s) == rstrip(lstrip(s))

\* content.split('\n'): acc is the piece being read, out the pieces finished.
RECURSIVE SplitFrom(_, _, _)
SplitFrom(s, acc, out) ==
    IF s = <<>> THEN Append(out, acc)
    ELSE IF Head(s) = "\n" THEN SplitFrom(Tail(s), <<>>, Append(out, acc))
         ELSE SplitFrom(Tail(s), Append(acc, Head(s)), out)

split(s) == SplitFrom(s, <<>>, <<>>)

\* line.startswith('#')
startswith_hash(line) == line # <<>> /\ Head(line) = "#"

\* '==' in line
contains_eqeq(line) == \E i \in 1..(Len(line) - 1) : line[i] = "=" /\ line[i + 1] = "="

-----------------------------------------------------------------------------
(* The literals of the source *)

ignore_dirs ==
    { <<".", "g", "i", "t">>,
      <<"_", "_", "p", "y", "c", "a", "c", "h", "e", "_", "_">>,
      <<".", "p", "y", "t", "e", "s", "t", "_", "c", "a", "c", "h", "e">>,
      <<"n", "o", "d", "e", "_", "m", "o", "d", "u", "l", "e", "s">>,
      <<".", "v", "e", "n", "v">>,
      <<"v", "e", "n", "v">> }

\* 1024 * 1024, the "1MB limit" of _should_ignore_file.
SizeLimit == 1024 * 1024

\* f.read(1024): the number of leading bytes searched for a null byte.
ChunkSize == 1024

main_names ==
    { <<"m", "a", "i", "n", ".", "p", "y">>,
      <<"a", "p", "p", ".", "p", "y">>,
      <<"i", "n", "d", "e", "x", ".", "p", "y">>,
      <<"r", "u", "n", ".", "p", "y">> }

requirements_txt == <<"r", "e", "q", "u", "i", "r", "e", "m", "e", "n", "t", "s", ".", "t", "x", "t">>

config_names ==
    { requirements_txt,
      <<"p", "a", "c", "k", "a", "g", "e", ".", "j", "s", "o", "n">>,
      <<"s", "e", "t", "u", "p", ".", "p", "y">>,
      <<"p", "y", "p", "r", "o", "j", "e", "c", "t", ".", "t", "o", "m", "l">>,
      <<"d", "o", "c", "k", "e", "r", "f", "i", "l", "e">>,
      <<"d", "o", "c", "k", "e", "r", "-", "c", "o", "m", "p", "o", "s", "e", ".", "y", "m", "l">>,
      <<".", "e", "n", "v", ".", "e", "x", "a", "m", "p", "l", "e">>,
      <<"c", "o", "n", "f", "i", "g", ".", "j", "s", "o", "n">> }

ext_py == <<".", "p", "y">>

exts_js == { <<".", "j", "s">>, <<".", "j", "s", "x">>, <<".", "t", "s">>, <<".", "t", "s", "x">> }

exts_html == { <<".", "h", "t", "m", "l">>, <<".", "h", "t", "m">> }

ext_css == <<".", "c", "s", "s">>

ext_json == <<".", "j", "s", "o", "n">>

ext_md == <<".", "m", "d">>

exts_yaml == { <<".", "y", "m", "l">>, <<".", "y", "a", "m", "l">> }

ext_txt == <<".", "t", "x", "t">>

-----------------------------------------------------------------------------
(* The filesystem the analyzer reads *)

\* One entry yielded by rglob.  rel is the path below the root; size is
\* st_size; firstNull is the 1-based position of the first null byte of the
\* content (0: the content has none); statErr: stat() raises OSError although
\* is_file() answered True (the file went away or became inaccessible in
\* between); openErr: open(..., 'rb') or the read of the first chunk raises;
\* readErr: read_text() raises (an undecodable byte, or an I/O error); text is
\* the text of the file, modelled for the manifests only.
Entry(kind, rel, size, firstNull, statErr, openErr, readErr, text) ==
    [kind |-> kind, rel |-> rel, size |-> size, firstNull |-> firstNull,
     statErr |-> statErr, openErr |-> openErr, readErr |-> readErr, text |-> text]

SmallSize == 2000

\* The conditions a file can be in: <<size, firstNull, statErr, openErr>>.
Conditions ==
    { <<SmallSize, 0, FALSE, FALSE>>,               \* a small text file
      <<SizeLimit, 0, FALSE, FALSE>>,               \* exactly at the size limit
      <<SizeLimit + 1, 0, FALSE, FALSE>>,           \* one byte over the limit
      <<SmallSize, ChunkSize, FALSE, FALSE>>,       \* null byte, last byte of the chunk
      <<SmallSize, ChunkSize + 1, FALSE, FALSE>>,   \* null byte, first byte after the chunk
      <<SmallSize, 0, TRUE, FALSE>>,                \* stat() fails
      <<SmallSize, 0, FALSE, TRUE>> }               \* cannot be opened

s_src == <<"s", "r", "c">>

PlainPaths ==
    { << <<"m", "a", "i", "n", ".", "p", "y">> >>,
      << s_src, <<"u", "i", ".", "J", "S", "X">> >>,
      << <<"v", "e", "n", "v">>, <<"l", "i", "b", ".", "p", "y">> >>,
      << s_src, <<".", "g", "i", "t">>, <<"c", "o", "n", "f", "i", "g", ".", "j", "s", "o", "n">> >>,
      << <<"m", "y", "v", "e", "n", "v">>, <<"A", "p", "p", ".", "P", "Y">> >>,
      << <<"d", "a", "t", "a", ".", "b", "i", "n">> >> }

PlainFiles ==
    { Entry("file", p, c[1], c[2], c[3], c[4], FALSE, <<>>) : p \in PlainPaths, c \in Conditions }

\* "a==1\n#b==2\n\n b==2 \nc=3"
TextA == <<"a", "=", "=", "1", "\n", "#", "b", "=", "=", "2", "\n", "\n", " ", "b", "=", "=", "2", " ", "\n", "c", "=", "3">>

\* " \n==\r\n#"
TextB == <<" ", "\n", "=", "=", "\r", "\n", "#">>

\* "c==3"
TextC == <<"c", "=", "=", "3">>

p_requirements == << requirements_txt >>

p_sub_requirements == << <<"s", "u", "b">>, <<"R", "e", "q", "u", "i", "r", "e", "m", "e", "n", "t", "s", ".", "T", "X", "T">> >>

Manifests ==
    { Entry("file", p_requirements, Len(TextA), 0, FALSE, FALSE, FALSE, TextA),
      Entry("file", p_requirements, Len(TextB), 0, FALSE, FALSE, FALSE, TextB),
      Entry("file", p_requirements, Len(TextA) + 1, 0, FALSE, FALSE, TRUE, TextA),
      Entry("file", p_requirements, SizeLimit + 1, 0, FALSE, FALSE, FALSE, TextA),
      Entry("file", p_requirements, Len(TextA), 0, FALSE, TRUE, FALSE, TextA),
      Entry("file", p_sub_requirements, Len(TextC), 0, FALSE, FALSE, FALSE, TextC),
      Entry("file", p_sub_requirements, Len(TextC) + 1, 0, FALSE, FALSE, TRUE, TextC) }

OtherEntries ==
    { Entry("file", << <<".", "g", "i", "t", "i", "g", "n", "o", "r", "e">> >>, SmallSize, 0, FALSE, FALSE, FALSE, <<>>),
      Entry("dir", << s_src >>, 0, 0, FALSE, FALSE, FALSE, <<>>) }

Catalogue == PlainFiles \cup Manifests \cup OtherEntries

\* The enumerations rglob can yield: up to MaxEntries entries with distinct
\* paths, in any order (scandir fixes none).
Trees ==
    UNION { {s \in [1..n -> Catalogue] : \A i, j \in 1..n : s[i].rel = s[j].rel => i = j}
            : n \in 0..MaxEntries }

\* The path given to the constructor, as written by the caller.
RootChoices ==
    { << <<"h", "o", "m", "e">>, <<"p", "r", "o", "j">> >>,
      << <<"v", "e", "n", "v">>, <<"p", "r", "o", "j">> >> }

-----------------------------------------------------------------------------
(* RepositoryAnalyzer *)

\* file_path.parts of an entry: rglob yields paths that start with repo_path.
parts(e) == rootParts \o e.rel

\* file_path.relative_to(self.repo_path)
relative_to(p) == SubSeq(p, Len(rootParts) + 1, Len(p))

\* Variant: project_type starts unset.
EmptyResult_unset ==
    [file_types |-> {}, languages |-> {}, structure |-> <<>>, main_files |-> <<>>,
     config_files |-> <<>>, dependencies |-> <<>>, project_type |-> ""]

\* Variant: the dictionary carries a file count as well.
EmptyResult_with_count ==
    [file_types |-> {}, languages |-> {}, structure |-> <<>>, main_files |-> <<>>,
     config_files |-> <<>>, dependencies |-> <<>>, project_type |-> "unknown",
     total_files |-> 0]

\* The dictionary analyze starts from.
EmptyResult ==
    [file_types |-> {}, languages |-> {}, structure |-> <<>>, main_files |-> <<>>,
     config_files |-> <<>>, dependencies |-> <<>>, project_type |-> "unknown"]

\* Variant: only the file's own name is compared with ignore_dirs.
in_ignore_dirs_name_only(e) == name(parts(e)) \in ignore_dirs

\* any(part in ignore_dirs for part in file_path.parts)
in_ignore_dirs(e) == \E i \in DOMAIN parts(e) : parts(e)[i] \in ignore_dirs

\* Variant: a limit of 10 MB.
over_size_limit_10mb(e) == e.size > 10 * 1024 * 1024

\* file_path.stat().st_size > 1024 * 1024
over_size_limit(e) == e.size > SizeLimit

\* Variant: the chunk is one byte short.
null_in_chunk_short(e) == e.firstNull >= 1 /\ e.firstNull < ChunkSize

\* b'\x00' in chunk, chunk being the first 1024 bytes.
null_in_chunk(e) == e.firstNull >= 1 /\ e.firstNull <= ChunkSize

\* Variant: the except clause lets the file through.
open_failed_answer_false == FALSE

\* What the except clause around open/read returns.
open_failed_answer == TRUE

\* _should_ignore_file: value is the answer; raised says that stat() raised,
\* which nothing in the method catches.
_should_ignore_file(e) ==
    IF in_ignore_dirs(e) THEN [raised |-> FALSE, value |-> TRUE]
    ELSE IF e.statErr THEN [raised |-> TRUE, value |-> FALSE]
    ELSE IF over_size_limit(e) THEN [raised |-> FALSE, value |-> TRUE]
    ELSE IF e.openErr THEN [raised |-> FALSE, value |-> open_failed_answer]
    ELSE IF null_in_chunk(e) THEN [raised |-> FALSE, value |-> TRUE]
    ELSE [raised |-> FALSE, value |-> FALSE]

\* Variant: only .yml is taken for YAML.
language_of_yml_only(sfx) ==
    IF sfx = ext_py THEN "Python"
    ELSE IF sfx \in exts_js THEN "JavaScript"
    ELSE IF sfx \in exts_html THEN "HTML"
    ELSE IF sfx = ext_css THEN "CSS"
    ELSE IF sfx = ext_json THEN "JSON"
    ELSE IF sfx = ext_md THEN "Markdown"
    ELSE IF sfx = <<".", "y", "m", "l">> THEN "YAML"
    ELSE IF sfx = ext_txt THEN "Text"
    ELSE ""

\* The if/elif chain on the suffix: the language added, "" when none.
language_of(sfx) ==
    IF sfx = ext_py THEN "Python"
    ELSE IF sfx \in exts_js THEN "JavaScript"
    ELSE IF sfx \in exts_html THEN "HTML"
    ELSE IF sfx = ext_css THEN "CSS"
    ELSE IF sfx = ext_json THEN "JSON"
    ELSE IF sfx = ext_md THEN "Markdown"
    ELSE IF sfx \in exts_yaml THEN "YAML"
    ELSE IF sfx = ext_txt THEN "Text"
    ELSE ""

\* Variant: the assignment is not guarded, the last primary language wins.
set_project_type_unguarded(current, sfx) ==
    IF sfx = ext_py \/ sfx \in exts_js THEN language_of(sfx) ELSE current

\* Variant: a .py file sets the project type whatever it was.
set_project_type_python_wins(current, sfx) ==
    IF sfx = ext_py THEN language_of(sfx)
    ELSE IF sfx \in exts_js /\ (current = "" \/ current = "unknown")
    THEN language_of(sfx)
    ELSE current

\* The guarded assignment of project_type in the .py and the .js branches.
set_project_type(current, sfx) ==
    IF (sfx = ext_py \/ sfx \in exts_js) /\ (current = "" \/ current = "unknown")
    THEN language_of(sfx)
    ELSE current

\* Variant: the lines are tested and appended without strip().
RECURSIVE keep_lines_unstripped(_)
keep_lines_unstripped(ls) ==
    IF ls = <<>> THEN <<>>
    ELSE LET line == Head(ls)
         IN  IF line # <<>> /\ ~startswith_hash(line) /\ contains_eqeq(line)
             THEN <<line>> \o keep_lines_unstripped(Tail(ls))
             ELSE keep_lines_unstripped(Tail(ls))

\* The loop over content.split('\n'): the lines appended to dependencies.
RECURSIVE keep_lines(_)
keep_lines(ls) ==
    IF ls = <<>> THEN <<>>
    ELSE LET line == strip(Head(ls))
         IN  IF line # <<>> /\ ~startswith_hash(line) /\ contains_eqeq(line)
             THEN <<line>> \o keep_lines(Tail(ls))
             ELSE keep_lines(Tail(ls))

\* Variant: no try/except, an exception of read_text leaves the method.
read_dependencies_uncaught(e) ==
    IF e.readErr THEN [raised |-> TRUE, lines |-> <<>>]
    ELSE [raised |-> FALSE, lines |-> keep_lines(split(e.text))]

\* What the try block of the requirements.txt branch adds to dependencies;
\* an exception of read_text is swallowed by "except: pass".
read_dependencies(e) ==
    IF e.readErr THEN [raised |-> FALSE, lines |-> <<>>]
    ELSE [raised |-> FALSE, lines |-> keep_lines(split(e.text))]

\* Variant: the entry-point names are compared with the name as written.
_analyze_file_main_case(e, r) ==
    LET filename == lower(name(parts(e)))
        sfx == lower(suffix(parts(e)))
        r1 == IF name(parts(e)) \in main_names
              THEN [r EXCEPT !.main_files = Append(@, relative_to(parts(e)))]
              ELSE r
        r2 == IF filename \in config_names
              THEN [r1 EXCEPT !.config_files = Append(@, relative_to(parts(e)))]
              ELSE r1
        r3 == [r2 EXCEPT !.languages = IF language_of(sfx) # "" THEN @ \cup {language_of(sfx)} ELSE @,
                         !.project_type = set_project_type(@, sfx)]
        deps == read_dependencies(e)
    IN  IF filename = requirements_txt
        THEN [raised |-> deps.raised,
              result |-> [r3 EXCEPT !.dependencies = @ \o deps.lines]]
        ELSE [raised |-> FALSE, result |-> r3]

\* Variant: the configuration names are compared with the name as written.
_analyze_file_config_case(e, r) ==
    LET filename == lower(name(parts(e)))
        sfx == lower(suffix(parts(e)))
        r1 == IF filename \in main_names
              THEN [r EXCEPT !.main_files = Append(@, relative_to(parts(e)))]
              ELSE r
        r2 == IF name(parts(e)) \in config_names
              THEN [r1 EXCEPT !.config_files = Append(@, relative_to(parts(e)))]
              ELSE r1
        r3 == [r2 EXCEPT !.languages = IF language_of(sfx) # "" THEN @ \cup {language_of(sfx)} ELSE @,
                         !.project_type = set_project_type(@, sfx)]
        deps == read_dependencies(e)
    IN  IF filename = requirements_txt
        THEN [raised |-> deps.raised,
              result |-> [r3 EXCEPT !.dependencies = @ \o deps.lines]]
        ELSE [raised |-> FALSE, result |-> r3]

\* _analyze_file
_analyze_file(e, r) ==
    LET filename == lower(name(parts(e)))
        sfx == lower(suffix(parts(e)))
        r1 == IF filename \in main_names
              THEN [r EXCEPT !.main_files = Append(@, relative_to(parts(e)))]
              ELSE r
        r2 == IF filename \in config_names
              THEN [r1 EXCEPT !.config_files = Append(@, relative_to(parts(e)))]
              ELSE r1
        r3 == [r2 EXCEPT !.languages = IF language_of(sfx) # "" THEN @ \cup {language_of(sfx)} ELSE @,
                         !.project_type = set_project_type(@, sfx)]
        deps == read_dependencies(e)
    IN  IF filename = requirements_txt
        THEN [raised |-> deps.raised,
              result |-> [r3 EXCEPT !.dependencies = @ \o deps.lines]]
        ELSE [raised |-> FALSE, result |-> r3]

\* self.repo_path.exists()
exists(kind) == kind # "missing"

\* Variant: the constructor does not look at the path.
RepositoryAnalyzer__init__unchecked ==
    /\ pc = "new"
    /\ pc' = "ready"
    /\ UNCHANGED <<rootKind, rootParts, entries, idx, result, profile, exc>>
    /\ UNCHANGED <<botArgs, bot>>
    /\ UNCHANGED docVars

\* RepositoryAnalyzer.__init__
RepositoryAnalyzer__init__ ==
    /\ pc = "new"
    /\ IF ~exists(rootKind)
       THEN pc' = "raised" /\ exc' = "ValueError"
       ELSE pc' = "ready" /\ exc' = exc
    /\ UNCHANGED <<rootKind, rootParts, entries, idx, result, profile>>
    /\ UNCHANGED <<botArgs, bot>>
    /\ UNCHANGED docVars

\* Variant: the result dictionary is made once and kept across calls.
analyze_begin_keeps_result ==
    /\ pc = "ready"
    /\ pc' = "walking"
    /\ idx' = 1
    /\ result' = result
    /\ UNCHANGED <<rootKind, rootParts, entries, profile, exc>>
    /\ UNCHANGED <<botArgs, bot>>
    /\ UNCHANGED docVars

\* analyze, up to the for loop: the fresh result dictionary.
analyze_begin ==
    /\ pc = "ready"
    /\ pc' = "walking"
    /\ idx' = 1
    /\ result' = EmptyResult
    /\ UNCHANGED <<rootKind, rootParts, entries, profile, exc>>
    /\ UNCHANGED <<botArgs, bot>>
    /\ UNCHANGED docVars

\* Variant: the suffix goes into file_types as written, not lower-cased.
analyze_entry_raw_suffix ==
    /\ pc = "walking"
    /\ idx <= Len(entries)
    /\ LET e == entries[idx]
           ign == _should_ignore_file(e)
           sfx == suffix(parts(e))
           r1 == [result EXCEPT !.structure = Append(@, relative_to(parts(e))),
                                !.file_types = IF sfx # <<>> THEN @ \cup {sfx} ELSE @]
           a == _analyze_file(e, r1)
       IN  IF e.kind # "file"
           THEN idx' = idx + 1 /\ UNCHANGED <<pc, exc, result>>
           ELSE IF ign.raised
           THEN pc' = "raised" /\ exc' = "OSError" /\ UNCHANGED <<idx, result>>
           ELSE IF ign.value
           THEN idx' = idx + 1 /\ UNCHANGED <<pc, exc, result>>
           ELSE IF a.raised
           THEN pc' = "raised" /\ exc' = "OSError" /\ UNCHANGED <<idx, result>>
           ELSE idx' = idx + 1 /\ result' = a.result /\ UNCHANGED <<pc, exc>>
    /\ UNCHANGED <<rootKind, rootParts, entries, profile>>
    /\ UNCHANGED <<botArgs, bot>>
    /\ UNCHANGED docVars

\* analyze, one iteration of the for loop over rglob('*').
analyze_entry ==
    /\ pc = "walking"
    /\ idx <= Len(entries)
    /\ LET e == entries[idx]
           ign == _should_ignore_file(e)
           sfx == lower(suffix(parts(e)))
           r1 == [result EXCEPT !.structure = Append(@, relative_to(parts(e))),
                                !.file_types = IF sfx # <<>> THEN @ \cup {sfx} ELSE @]
           a == _analyze_file(e, r1)
       IN  IF e.kind # "file"
           THEN idx' = idx + 1 /\ UNCHANGED <<pc, exc, result>>
           ELSE IF ign.raised
           THEN pc' = "raised" /\ exc' = "OSError" /\ UNCHANGED <<idx, result>>
           ELSE IF ign.value
           THEN idx' = idx + 1 /\ UNCHANGED <<pc, exc, result>>
           ELSE IF a.raised
           THEN pc' = "raised" /\ exc' = "OSError" /\ UNCHANGED <<idx, result>>
           ELSE idx' = idx + 1 /\ result' = a.result /\ UNCHANGED <<pc, exc>>
    /\ UNCHANGED <<rootKind, rootParts, entries, profile>>
    /\ UNCHANGED <<botArgs, bot>>
    /\ UNCHANGED docVars

\* Variant: analyze leaves a cache file in the repository before returning.
analyze_return_writes_cache ==
    /\ pc = "walking"
    /\ idx > Len(entries)
    /\ \E ft \in Perms(result.file_types), ls \in Perms(result.languages) :
           profile' = Append(profile, [result EXCEPT !.file_types = ft, !.languages = ls])
    /\ pc' = "returned"
    /\ entries' = Append(entries,
                         Entry("file", << <<".", "c", "a", "c", "h", "e">> >>, SmallSize, 0,
                               FALSE, FALSE, FALSE, <<>>))
    /\ UNCHANGED <<rootKind, rootParts, idx, result, exc>>
    /\ UNCHANGED <<botArgs, bot>>
    /\ UNCHANGED docVars

\* analyze, after the loop: the two sets become lists and the dictionary is
\* returned.
analyze_return ==
    /\ pc = "walking"
    /\ idx > Len(entries)
    /\ \E ft \in Perms(result.file_types), ls \in Perms(result.languages) :
           profile' = Append(profile, [result EXCEPT !.file_types = ft, !.languages = ls])
    /\ pc' = "returned"
    /\ UNCHANGED <<rootKind, rootParts, entries, idx, result, exc>>
    /\ UNCHANGED <<botArgs, bot>>
    /\ UNCHANGED docVars

\* Paths that cover the file names the analyzer knows, in both cases, and
\* names it does not know.
NamedPaths ==
    { << <<"m", "a", "i", "n", ".", "p", "y">> >>,
      << <<"p", "k", "g">>, <<"A", "p", "p", ".", "P", "Y">> >>,
      << <<"i", "n", "d", "e", "x", ".", "p", "y">> >>,
      << <<"R", "U", "N", ".", "p", "y">> >>,
      << <<"x", "m", "a", "i", "n", ".", "p", "y">> >>,
      << <<"m", "a", "i", "n", ".", "p", "y", ".", "b", "a", "k">> >>,
      << <<"p", "a", "c", "k", "a", "g", "e", ".", "j", "s", "o", "n">> >>,
      << <<"s", "e", "t", "u", "p", ".", "p", "y">> >>,
      << <<"p", "y", "p", "r", "o", "j", "e", "c", "t", ".", "t", "o", "m", "l">> >>,
      << <<"D", "o", "c", "k", "e", "r", "f", "i", "l", "e">> >>,
      << <<"d", "o", "c", "k", "e", "r", "-", "c", "o", "m", "p", "o", "s", "e", ".", "y", "m", "l">> >>,
      << <<".", "e", "n", "v", ".", "e", "x", "a", "m", "p", "l", "e">> >>,
      << <<"p", "k", "g">>, <<"C", "o", "n", "f", "i", "g", ".", "J", "S", "O", "N">> >>,
      << <<"M", "a", "k", "e", "f", "i", "l", "e">> >> }

\* The files at NamedPaths, all small text files, two manifests, and a file
\* the ignore policy drops.
NamedFiles ==
    { Entry("file", p, SmallSize, 0, FALSE, FALSE, FALSE, <<>>) : p \in NamedPaths }
    \cup { Entry("file", p_requirements, Len(TextA), 0, FALSE, FALSE, FALSE, TextA),
           Entry("file", p_sub_requirements, Len(TextC), 0, FALSE, FALSE, FALSE, TextC),
           Entry("file", << <<"v", "e", "n", "v">>, <<"i", "n", "d", "e", "x", ".", "p", "y">> >>, SmallSize, 0, FALSE, FALSE, FALSE, <<>>) }

\* Paths that cover the extensions the analyzer knows, in both cases, and
\* extensions it does not know.
TypedPaths ==
    { << <<"m", "a", "i", "n", ".", "p", "y">> >>,
      << <<"a", "p", "p", ".", "j", "s">> >>,
      << <<"u", "i", ".", "J", "S", "X">> >>,
      << <<"m", "o", "d", ".", "t", "s">> >>,
      << <<"v", "i", "e", "w", ".", "t", "s", "x">> >>,
      << <<"i", "n", "d", "e", "x", ".", "h", "t", "m", "l">> >>,
      << <<"p", "a", "g", "e", ".", "H", "T", "M">> >>,
      << <<"s", "t", "y", "l", "e", ".", "c", "s", "s">> >>,
      << <<"p", "k", "g">>, <<"C", "o", "n", "f", "i", "g", ".", "J", "S", "O", "N">> >>,
      << <<"R", "E", "A", "D", "M", "E", ".", "m", "d">> >>,
      << <<"d", "o", "c", "k", "e", "r", "-", "c", "o", "m", "p", "o", "s", "e", ".", "y", "m", "l">> >>,
      << <<"c", "i", ".", "y", "a", "m", "l">> >>,
      << <<"n", "o", "t", "e", "s", ".", "t", "x", "t">> >>,
      << <<"d", "a", "t", "a", ".", "b", "i", "n">> >>,
      << <<".", "g", "i", "t", "i", "g", "n", "o", "r", "e">> >>,
      << <<"M", "a", "k", "e", "f", "i", "l", "e">> >>,
      << <<"a", "r", "c", "h", "i", "v", "e", ".", "t", "a", "r", ".", "g", "z">> >> }

\* The files at TypedPaths, all small text files, and two files the ignore
\* policy drops: over the size limit, with a null byte.
TypedFiles ==
    { Entry("file", p, SmallSize, 0, FALSE, FALSE, FALSE, <<>>) : p \in TypedPaths }
    \cup { Entry("file", << <<"b", "i", "g", ".", "c", "s", "s">> >>, SizeLimit + 1, 0, FALSE, FALSE, FALSE, <<>>),
           Entry("file", << <<"b", "l", "o", "b", ".", "y", "m", "l">> >>, SmallSize, ChunkSize, FALSE, FALSE, FALSE, <<>>) }

p_readme == << <<"R", "E", "A", "D", "M", "E", ".", "m", "d">> >>

p_docs == << <<"d", "o", "c", "s">> >>

\* The documents _generate_architecture_doc, _generate_api_doc,
\* _generate_setup_doc and _generate_usage_doc write under docs, in the order
\* generate_documentation_files calls them.
docs_files == <<"architecture.md", "api.md", "setup.md", "usage.md">>

\* What lies at the paths the generator writes to, for a tree: a file is <<>>
\* when absent and <<its content>> when present; docs is "absent", "dir" or
\* "file".  The files of docs start absent.
DiskOf(es) ==
    [ readme |-> IF \E i \in DOMAIN es : es[i].rel = p_readme
                 THEN << es[CHOOSE i \in DOMAIN es : es[i].rel = p_readme].text >>
                 ELSE <<>>,
      docs |-> IF \E i \in DOMAIN es : es[i].rel = p_docs
               THEN es[CHOOSE i \in DOMAIN es : es[i].rel = p_docs].kind
               ELSE "absent",
      files |-> [d \in {docs_files[i] : i \in DOMAIN docs_files} |-> <<>>] ]

\* No method has been called yet.
NoCall == [op |-> "none", exc |-> "none", made |-> 0, disk |-> DiskOf(<<>>)]

\* Before any DocumentationGenerator exists: openai importable, the key set.
NothingGenerated ==
    /\ environ = [openai |-> TRUE, api_key |-> TRUE]
    /\ generator = <<>>
    /\ disk = DiskOf(entries)
    /\ llm_log = <<>>
    /\ lastCall = NoCall

\* The enumerations of up to MaxEntries entries of a catalogue, paths distinct.
TreesOver(catalogue) ==
    UNION { {s \in [1..n -> catalogue] : \A i, j \in 1..n : s[i].rel = s[j].rel => i = j}
            : n \in 0..MaxEntries }

\* The defaults of DocumentationBot.__init__: detail_level "medium",
\* max_llm_calls 20.
DefaultArgs == [detail_level |-> "medium", max_llm_calls |-> 20]

Init ==
    /\ rootKind \in {"missing", "file", "dir"}
    /\ rootParts \in RootChoices
    /\ entries \in (IF rootKind = "dir" THEN Trees ELSE {<<>>})
    /\ pc = "new"
    /\ idx = 0
    /\ result = EmptyResult
    /\ profile = <<>>
    /\ exc = "none"
    /\ botArgs = DefaultArgs
    /\ bot = <<>>
    /\ NothingGenerated

Next ==
    \/ RepositoryAnalyzer__init__
    \/ analyze_begin
    \/ analyze_entry
    \/ analyze_return

Spec == Init /\ [][Next]_vars

\* The detail levels DocumentationBot.__init__ accepts.
detail_levels == {"low", "medium", "high"}

\* The detail levels a caller may pass: the three accepted ones, one of them
\* in capitals, the empty string, and an unknown word.
DetailLevelArgs == detail_levels \cup {"HIGH", "", "verbose"}

\* Variant: zero calls are accepted.
DocumentationBot__init__zero_accepted ==
    /\ pc = "new"
    /\ bot = <<>>
    /\ LET attrs == [repo_path |-> rootParts,
                     detail_level |-> botArgs.detail_level,
                     max_llm_calls |-> botArgs.max_llm_calls]
       IN  IF \/ ~exists(rootKind)
              \/ botArgs.detail_level \notin detail_levels
              \/ botArgs.max_llm_calls < 0
           THEN /\ bot' = << [outcome |-> "ValueError", attrs |-> attrs] >>
                /\ UNCHANGED <<pc, exc>>
           ELSE /\ bot' = << [outcome |-> "constructed", attrs |-> attrs] >>
                /\ IF ~exists(rootKind)
                   THEN pc' = "raised" /\ exc' = "ValueError"
                   ELSE pc' = "ready" /\ exc' = exc
    /\ UNCHANGED <<rootKind, rootParts, entries, idx, result, profile, botArgs>>
    /\ UNCHANGED docVars

\* DocumentationBot.__init__: the three attributes are assigned, the inputs
\* validated, and the RepositoryAnalyzer constructed (its own existence check
\* included).  attrs are the attributes of the bot; after a ValueError the
\* caller holds no bot.
DocumentationBot__init__ ==
    /\ pc = "new"
    /\ bot = <<>>
    /\ LET attrs == [repo_path |-> rootParts,
                     detail_level |-> botArgs.detail_level,
                     max_llm_calls |-> botArgs.max_llm_calls]
       IN  IF \/ ~exists(rootKind)
              \/ botArgs.detail_level \notin detail_levels
              \/ botArgs.max_llm_calls <= 0
           THEN /\ bot' = << [outcome |-> "ValueError", attrs |-> attrs] >>
                /\ UNCHANGED <<pc, exc>>
           ELSE /\ bot' = << [outcome |-> "constructed", attrs |-> attrs] >>
                /\ IF ~exists(rootKind)
                   THEN pc' = "raised" /\ exc' = "ValueError"
                   ELSE pc' = "ready" /\ exc' = exc
    /\ UNCHANGED <<rootKind, rootParts, entries, idx, result, profile, botArgs>>
    /\ UNCHANGED docVars

\* A DocumentationBot is constructed on any of the roots, with any of the
\* detail levels and any number of calls from -1 to MaxCallsArg.
InitBot ==
    /\ rootKind \in {"missing", "file", "dir"}
    /\ rootParts \in RootChoices
    /\ entries = <<>>
    /\ pc = "new"
    /\ idx = 0
    /\ result = EmptyResult
    /\ profile = <<>>
    /\ exc = "none"
    /\ botArgs \in [detail_level : DetailLevelArgs, max_llm_calls : (-1)..MaxCallsArg]
    /\ bot = <<>>
    /\ NothingGenerated

NextBot == DocumentationBot__init__

SpecBot == InitBot /\ [][NextBot]_vars

\* The trees scanned more than once: files of two extensions and of none,
\* retained or dropped by each rule of the ignore policy, and the manifests.
TwiceCatalogue ==
    { Entry("file", << <<"m", "a", "i", "n", ".", "p", "y">> >>, SmallSize, 0, FALSE, FALSE, FALSE, <<>>),
      Entry("file", << <<"p", "k", "g">>, <<"A", "p", "p", ".", "P", "Y">> >>, SizeLimit, 0, FALSE, FALSE, FALSE, <<>>),
      Entry("file", << <<"v", "e", "n", "v">>, <<"i", "n", "d", "e", "x", ".", "p", "y">> >>, SmallSize, 0, FALSE, FALSE, FALSE, <<>>),
      Entry("file", << <<"b", "i", "g", ".", "p", "y">> >>, SizeLimit + 1, 0, FALSE, FALSE, FALSE, <<>>),
      Entry("file", << <<"b", "l", "o", "b", ".", "t", "x", "t">> >>, SmallSize, ChunkSize, FALSE, FALSE, FALSE, <<>>),
      Entry("file", << <<"l", "o", "c", "k", "e", "d", ".", "t", "x", "t">> >>, SmallSize, 0, FALSE, TRUE, FALSE, <<>>),
      Entry("file", << <<"M", "a", "k", "e", "f", "i", "l", "e">> >>, SmallSize, 0, FALSE, FALSE, FALSE, <<>>),
      Entry("dir", << s_src >>, 0, 0, FALSE, FALSE, FALSE, <<>>) }
    \cup Manifests

InitTwice ==
    /\ rootKind = "dir"
    /\ rootParts \in RootChoices
    /\ entries \in TreesOver(TwiceCatalogue)
    /\ pc = "new"
    /\ idx = 0
    /\ result = EmptyResult
    /\ profile = <<>>
    /\ exc = "none"
    /\ botArgs = DefaultArgs
    /\ bot = <<>>
    /\ NothingGenerated

\* The caller calls analyze again on the analyzer it holds, as
\* generate_documentation does each time it runs; the tree has not changed
\* and the filesystem enumerates it as before.
analyze_again ==
    /\ pc = "returned"
    /\ Len(profile) < MaxScans
    /\ pc' = "ready"
    /\ UNCHANGED <<rootKind, rootParts, entries, idx, result, profile, exc>>
    /\ UNCHANGED <<botArgs, bot>>
    /\ UNCHANGED docVars

NextRescan == Next \/ analyze_again

SpecRescan == InitTwice /\ [][NextRescan]_vars

\* The same files are scanned again where rglob yields them in another
\* order (scandir promises none: it is the order of the directory on disk,
\* which depends on the filesystem and on how the files were created).
analyze_other_order ==
    /\ pc = "returned"
    /\ Len(profile) < MaxScans
    /\ \E f \in Perms(DOMAIN entries) :
          /\ entries' = [i \in DOMAIN entries |-> entries[f[i]]]
          /\ entries' # entries
    /\ pc' = "ready"
    /\ UNCHANGED <<rootKind, rootParts, idx, result, profile, exc>>
    /\ UNCHANGED <<botArgs, bot>>
    /\ UNCHANGED docVars

NextOrders == Next \/ analyze_other_order

SpecOrders == InitTwice /\ [][NextOrders]_vars

\* The analyzer over trees of NamedFiles, the root a directory outside every
\* ignored directory.
InitNames ==
    /\ rootKind = "dir"
    /\ rootParts = << <<"h", "o", "m", "e">>, <<"p", "r", "o", "j">> >>
    /\ entries \in TreesOver(NamedFiles)
    /\ pc = "new"
    /\ idx = 0
    /\ result = EmptyResult
    /\ profile = <<>>
    /\ exc = "none"
    /\ botArgs = DefaultArgs
    /\ bot = <<>>
    /\ NothingGenerated

SpecNames == InitNames /\ [][Next]_vars

\* The analyzer over trees of TypedFiles, the root a directory outside every
\* ignored directory.
InitTypes ==
    /\ rootKind = "dir"
    /\ rootParts = << <<"h", "o", "m", "e">>, <<"p", "r", "o", "j">> >>
    /\ entries \in TreesOver(TypedFiles)
    /\ pc = "new"
    /\ idx = 0
    /\ result = EmptyResult
    /\ profile = <<>>
    /\ exc = "none"
    /\ botArgs = DefaultArgs
    /\ bot = <<>>
    /\ NothingGenerated

SpecTypes == InitTypes /\ [][Next]_vars

\* Two primary-language files, each small, over the size limit or gone when
\* stat is called, the manifests, a file without extension and a directory.
SignalsCatalogue ==
    { e \in PlainFiles :
        /\ name(e.rel) \in { <<"m", "a", "i", "n", ".", "p", "y">>, <<"u", "i", ".", "J", "S", "X">> }
        /\ e.size \in {SmallSize, SizeLimit + 1}
        /\ e.firstNull = 0
        /\ ~e.openErr }
    \cup Manifests \cup OtherEntries

\* The analyzer over trees of SignalsCatalogue, the root a directory outside
\* every ignored directory.
InitSignals ==
    /\ rootKind = "dir"
    /\ rootParts = << <<"h", "o", "m", "e">>, <<"p", "r", "o", "j">> >>
    /\ entries \in TreesOver(SignalsCatalogue)
    /\ pc = "new"
    /\ idx = 0
    /\ result = EmptyResult
    /\ profile = <<>>
    /\ exc = "none"
    /\ botArgs = DefaultArgs
    /\ bot = <<>>
    /\ NothingGenerated

SpecSignals == InitSignals /\ [][Next]_vars

-----------------------------------------------------------------------------
(* DocumentationGenerator *)

ReplyA == <<"#", " ", "A">>

ReplyB == <<"#", " ", "B">>

\* The old content of a README.md found in the repository.
OldReadme == <<"o", "l", "d">>

\* How one request to openai.ChatCompletion.create ends: it returns a
\* response whose content is a text, or it raises.
Outcomes ==
    { [raised |-> FALSE, text |-> ReplyA],
      [raised |-> FALSE, text |-> ReplyB],
      [raised |-> TRUE, text |-> <<>>] }

\* DocumentationGenerator.__init__: the attributes are assigned, then the
\* import of openai and the API key are checked.
NewGenerator(repo_path, detail_level, max_llm_calls) ==
    IF ~environ.openai THEN [exc |-> "ImportError", gen |-> <<>>]
    ELSE IF ~environ.api_key THEN [exc |-> "ValueError", gen |-> <<>>]
    ELSE [exc |-> "none",
          gen |-> << [repo_path |-> repo_path, detail_level |-> detail_level,
                      max_llm_calls |-> max_llm_calls, llm_calls_made |-> 0] >>]

\* The run of a method: gen is the generator (<<>> while the bot has made
\* none), disk and log what it has written and sent so far, exc the exception
\* that left it ("none": still running or returned), outs how the requests it
\* has yet to send will end, text the last content returned by _call_llm.
Run(gen, outs) ==
    [gen |-> gen, disk |-> disk, log |-> llm_log, exc |-> "none", outs |-> outs, text |-> <<>>]

\* Variant: the call is counted before the request is sent.
_call_llm_counts_first(st, doc) ==
    IF st.gen[1].llm_calls_made >= st.gen[1].max_llm_calls
    THEN [st EXCEPT !.exc = "ValueError"]
    ELSE LET o == Head(st.outs)
             sent == Append(st.log, [doc |-> doc, made |-> st.gen[1].llm_calls_made,
                                     raised |-> o.raised, text |-> o.text])
         IN  IF o.raised
             THEN [st EXCEPT !.exc = "APIError", !.log = sent, !.outs = Tail(@),
                             !.gen[1].llm_calls_made = @ + 1]
             ELSE [st EXCEPT !.gen[1].llm_calls_made = @ + 1, !.log = sent,
                             !.outs = Tail(@), !.text = o.text]

\* Variant: the budget is not checked before the request.
_call_llm_unchecked(st, doc) ==
    LET o == Head(st.outs)
        sent == Append(st.log, [doc |-> doc, made |-> st.gen[1].llm_calls_made,
                                raised |-> o.raised, text |-> o.text])
    IN  IF o.raised
        THEN [st EXCEPT !.exc = "APIError", !.log = sent, !.outs = Tail(@)]
        ELSE [st EXCEPT !.gen[1].llm_calls_made = @ + 1, !.log = sent,
                        !.outs = Tail(@), !.text = o.text]

\* _call_llm: ValueError when the budget is used up; else the request is
\* sent, and counted only when it returns; an exception of the request is
\* raised again.  doc names the document the request is for.
_call_llm(st, doc) ==
    IF st.gen[1].llm_calls_made >= st.gen[1].max_llm_calls
    THEN [st EXCEPT !.exc = "ValueError"]
    ELSE LET o == Head(st.outs)
             sent == Append(st.log, [doc |-> doc, made |-> st.gen[1].llm_calls_made,
                                     raised |-> o.raised, text |-> o.text])
         IN  IF o.raised
             THEN [st EXCEPT !.exc = "APIError", !.log = sent, !.outs = Tail(@)]
             ELSE [st EXCEPT !.gen[1].llm_calls_made = @ + 1, !.log = sent,
                             !.outs = Tail(@), !.text = o.text]

\* The exception of a write below repo_path when repo_path is no directory.
root_error == IF rootKind = "missing" THEN "FileNotFoundError" ELSE "NotADirectoryError"

\* Variant: the content is added to the end of the README.md that exists.
generate_readme_appends(st) ==
    IF st.gen[1].llm_calls_made >= st.gen[1].max_llm_calls
    THEN st
    ELSE LET c == _call_llm(st, "README.md")
         IN  IF c.exc # "none" THEN c
             ELSE IF rootKind # "dir" THEN [c EXCEPT !.exc = root_error]
             ELSE [c EXCEPT !.disk.readme =
                              IF @ = <<>> THEN << c.text >> ELSE << @[1] \o c.text >>]

\* generate_readme: nothing when the budget is used up; else one request, and
\* its content written to README.md.
generate_readme(st) ==
    IF st.gen[1].llm_calls_made >= st.gen[1].max_llm_calls
    THEN st
    ELSE LET c == _call_llm(st, "README.md")
         IN  IF c.exc # "none" THEN c
             ELSE IF rootKind # "dir" THEN [c EXCEPT !.exc = root_error]
             ELSE [c EXCEPT !.disk.readme = << c.text >>]

\* _generate_architecture_doc, _generate_api_doc, _generate_setup_doc and
\* _generate_usage_doc, which differ in the prompt and the file name d only:
\* nothing when the budget is used up; else one request, and its content
\* written to docs/d.
_generate_doc(st, d) ==
    IF st.gen[1].llm_calls_made >= st.gen[1].max_llm_calls
    THEN st
    ELSE LET c == _call_llm(st, d)
         IN  IF c.exc # "none" THEN c
             ELSE [c EXCEPT !.disk.files[d] = << c.text >>]

\* The four calls of generate_documentation_files from the i-th on; an
\* exception ends the sequence.
RECURSIVE generate_docs_from(_, _)
generate_docs_from(st, i) ==
    IF i > Len(docs_files) \/ st.exc # "none" THEN st
    ELSE generate_docs_from(_generate_doc(st, docs_files[i]), i + 1)

\* Variant: nothing is done unless the budget covers all four documents.
generate_documentation_files_needs_four(st) ==
    IF st.gen[1].llm_calls_made + Len(docs_files) > st.gen[1].max_llm_calls
    THEN st
    ELSE IF rootKind # "dir" THEN [st EXCEPT !.exc = root_error]
    ELSE IF st.disk.docs = "file" THEN [st EXCEPT !.exc = "FileExistsError"]
    ELSE generate_docs_from([st EXCEPT !.disk.docs = "dir"], 1)

\* generate_documentation_files: nothing when the budget is used up; else
\* docs is made (mkdir(exist_ok=True) accepts a directory that exists and
\* raises FileExistsError on a file) and the four documents are generated.
generate_documentation_files(st) ==
    IF st.gen[1].llm_calls_made >= st.gen[1].max_llm_calls
    THEN st
    ELSE IF rootKind # "dir" THEN [st EXCEPT !.exc = root_error]
    ELSE IF st.disk.docs = "file" THEN [st EXCEPT !.exc = "FileExistsError"]
    ELSE generate_docs_from([st EXCEPT !.disk.docs = "dir"], 1)

\* The state after a method has run to its end st, and the record of the
\* call: its name, the exception that left it, and the counter and the disk
\* it started from.
Finish(op, st) ==
    /\ generator' = st.gen
    /\ disk' = st.disk
    /\ llm_log' = st.log
    /\ lastCall' = [op |-> op, exc |-> st.exc,
                    made |-> IF generator = <<>> THEN 0 ELSE generator[1].llm_calls_made,
                    disk |-> disk]

\* Largest number of requests in the log at which a caller still calls a
\* method of the generator.
MaxRequests == 2

\* A caller constructs a DocumentationGenerator for the repository.
DocumentationGenerator__init__ ==
    /\ generator = <<>>
    /\ lastCall.op = "none"
    /\ LET new == NewGenerator(rootParts, botArgs.detail_level, botArgs.max_llm_calls)
       IN  Finish("__init__", [Run(new.gen, <<>>) EXCEPT !.exc = new.exc])
    /\ UNCHANGED <<rootKind, rootParts, entries, pc, idx, result, profile, exc>>
    /\ UNCHANGED <<botArgs, bot, environ>>

\* A caller calls generate_readme on the generator.
call_generate_readme ==
    /\ generator # <<>>
    /\ Len(llm_log) < MaxRequests
    /\ \E outs \in [1..1 -> Outcomes] :
          Finish("generate_readme", generate_readme(Run(generator, outs)))
    /\ UNCHANGED <<rootKind, rootParts, entries, pc, idx, result, profile, exc>>
    /\ UNCHANGED <<botArgs, bot, environ>>

\* A caller calls generate_documentation_files on the generator.
call_generate_documentation_files ==
    /\ generator # <<>>
    /\ Len(llm_log) < MaxRequests
    /\ \E outs \in [1..Len(docs_files) -> Outcomes] :
          Finish("generate_documentation_files",
                 generate_documentation_files(Run(generator, outs)))
    /\ UNCHANGED <<rootKind, rootParts, entries, pc, idx, result, profile, exc>>
    /\ UNCHANGED <<botArgs, bot, environ>>

\* A caller calls _call_llm on the generator.
call__call_llm ==
    /\ generator # <<>>
    /\ Len(llm_log) < MaxRequests
    /\ \E outs \in [1..1 -> Outcomes] :
          Finish("_call_llm", _call_llm(Run(generator, outs), "none"))
    /\ UNCHANGED <<rootKind, rootParts, entries, pc, idx, result, profile, exc>>
    /\ UNCHANGED <<botArgs, bot, environ>>

\* What the generator finds at the paths it writes to, and a file that is
\* gone when the analyzer comes to stat it.
DocsCatalogue ==
    { Entry("file", << <<"m", "a", "i", "n", ".", "p", "y">> >>, SmallSize, 0, FALSE, FALSE, FALSE, <<>>),
      Entry("file", << <<"g", "o", "n", "e", ".", "p", "y">> >>, SmallSize, 0, TRUE, FALSE, FALSE, <<>>),
      Entry("file", p_readme, Len(OldReadme), 0, FALSE, FALSE, FALSE, OldReadme),
      Entry("dir", p_docs, 0, 0, FALSE, FALSE, FALSE, <<>>),
      Entry("file", p_docs, SmallSize, 0, FALSE, FALSE, FALSE, <<>>) }

\* A generator is constructed directly, with any budget from -1 to
\* MaxCallsArg, on a root that is a directory, a file or missing.
InitGenerator ==
    /\ rootKind \in {"missing", "file", "dir"}
    /\ rootParts = << <<"h", "o", "m", "e">>, <<"p", "r", "o", "j">> >>
    /\ entries \in (IF rootKind = "dir" THEN TreesOver(DocsCatalogue) ELSE {<<>>})
    /\ pc = "new"
    /\ idx = 0
    /\ result = EmptyResult
    /\ profile = <<>>
    /\ exc = "none"
    /\ botArgs \in [detail_level : {"medium"}, max_llm_calls : (-1)..MaxCallsArg]
    /\ bot = <<>>
    /\ environ \in [openai : BOOLEAN, api_key : BOOLEAN]
    /\ generator = <<>>
    /\ disk = DiskOf(entries)
    /\ llm_log = <<>>
    /\ lastCall = NoCall

NextGenerator ==
    \/ DocumentationGenerator__init__
    \/ call_generate_readme
    \/ call_generate_documentation_files
    \/ call__call_llm

SpecGenerator == InitGenerator /\ [][NextGenerator]_vars

-----------------------------------------------------------------------------
(* DocumentationBot.generate_documentation *)

\* _get_generator: the generator of the bot, constructed at the first use
\* from the attributes of the bot.
_get_generator(st) ==
    IF st.gen # <<>> THEN st
    ELSE LET new == NewGenerator(bot[1].attrs.repo_path, bot[1].attrs.detail_level,
                                 bot[1].attrs.max_llm_calls)
         IN  [st EXCEPT !.gen = new.gen, !.exc = new.exc]

\* Variant: the README is generated whether README.md exists or not.
generate_documentation_always_readme ==
    /\ bot # <<>>
    /\ bot[1].outcome = "constructed"
    /\ pc \in {"returned", "raised"}
    /\ lastCall.op = "none"
    /\ \E outs \in [1..(1 + Len(docs_files)) -> Outcomes] :
          LET s0 == Run(generator, outs)
              g1 == _get_generator(s0)
              s1 == IF TRUE
                    THEN (IF g1.exc # "none" THEN g1 ELSE generate_readme(g1))
                    ELSE s0
              g2 == _get_generator(s1)
              s2 == IF s1.exc # "none" THEN s1
                    ELSE IF g2.exc # "none" THEN g2
                    ELSE generate_documentation_files(g2)
          IN  IF pc = "raised"
              THEN Finish("generate_documentation", [s0 EXCEPT !.exc = exc])
              ELSE Finish("generate_documentation", s2)
    /\ UNCHANGED <<rootKind, rootParts, entries, pc, idx, result, profile, exc>>
    /\ UNCHANGED <<botArgs, bot, environ>>

\* generate_documentation after self.analyzer.analyze() has returned or
\* raised (the analyzer steps above are that call): README.md is generated
\* unless it exists, then the files of docs; every exception is logged and
\* raised again.
generate_documentation ==
    /\ bot # <<>>
    /\ bot[1].outcome = "constructed"
    /\ pc \in {"returned", "raised"}
    /\ lastCall.op = "none"
    /\ \E outs \in [1..(1 + Len(docs_files)) -> Outcomes] :
          LET s0 == Run(generator, outs)
              g1 == _get_generator(s0)
              s1 == IF disk.readme = <<>>
                    THEN (IF g1.exc # "none" THEN g1 ELSE generate_readme(g1))
                    ELSE s0
              g2 == _get_generator(s1)
              s2 == IF s1.exc # "none" THEN s1
                    ELSE IF g2.exc # "none" THEN g2
                    ELSE generate_documentation_files(g2)
          IN  IF pc = "raised"
              THEN Finish("generate_documentation", [s0 EXCEPT !.exc = exc])
              ELSE Finish("generate_documentation", s2)
    /\ UNCHANGED <<rootKind, rootParts, entries, pc, idx, result, profile, exc>>
    /\ UNCHANGED <<botArgs, bot, environ>>

\* Largest max_llm_calls a bot that generates documentation is given.
MaxBudget == 6

\* A DocumentationBot is constructed on a root that is a directory or a
\* file, with any budget from 0 to MaxBudget.
InitDocs ==
    /\ rootKind \in {"file", "dir"}
    /\ rootParts = << <<"h", "o", "m", "e">>, <<"p", "r", "o", "j">> >>
    /\ entries \in (IF rootKind = "dir" THEN TreesOver(DocsCatalogue) ELSE {<<>>})
    /\ pc = "new"
    /\ idx = 0
    /\ result = EmptyResult
    /\ profile = <<>>
    /\ exc = "none"
    /\ botArgs \in [detail_level : {"medium"}, max_llm_calls : 0..MaxBudget]
    /\ bot = <<>>
    /\ environ \in [openai : BOOLEAN, api_key : BOOLEAN]
    /\ generator = <<>>
    /\ disk = DiskOf(entries)
    /\ llm_log = <<>>
    /\ lastCall = NoCall

NextDocs ==
    \/ DocumentationBot__init__
    \/ analyze_begin
    \/ analyze_entry
    \/ analyze_return
    \/ generate_documentation

SpecDocs == InitDocs /\ [][NextDocs]_vars

-----------------------------------------------------------------------------
(* Vocabulary of the properties *)

\* The elements of a sequence.
Range(s) == {s[i] : i \in DOMAIN s}

\* The smallest element of a set of numbers.
Min(S) == CHOOSE m \in S : \A n \in S : m <= n

\* The profiles analyze has returned: none or one.
Returned == Range(profile)

\* The regular files of the tree.
Files == {entries[i] : i \in DOMAIN entries} \ {e \in Range(entries) : e.kind # "file"}

\* The directory names the specification lists as ignored.
IgnoredNames ==
    { <<".", "g", "i", "t">>,
      <<"_", "_", "p", "y", "c", "a", "c", "h", "e", "_", "_">>,
      <<".", "p", "y", "t", "e", "s", "t", "_", "c", "a", "c", "h", "e">>,
      <<"n", "o", "d", "e", "_", "m", "o", "d", "u", "l", "e", "s">>,
      <<".", "v", "e", "n", "v">>,
      <<"v", "e", "n", "v">> }

HasIgnoredSegment(path) == \E k \in DOMAIN path : path[k] \in IgnoredNames

\* The lower-cased extension of a file.
Ext(e) == lower(suffix(e.rel))

\* The file is named requirements.txt, whatever the case.
IsManifest(e) == lower(name(e.rel)) = requirements_txt

\* The k-th smallest element of a set of numbers.
Kth(S, k) == CHOOSE i \in S : Cardinality({j \in S : j < i}) = k - 1

\* The k-th line of a text: what lies between two consecutive line feeds.
Line(t, k) ==
    LET nl == {i \in DOMAIN t : t[i] = "\n"}
        first == IF k = 1 THEN 1 ELSE Kth(nl, k - 1) + 1
        last == IF k = Cardinality(nl) + 1 THEN Len(t) ELSE Kth(nl, k) - 1
    IN  SubSeq(t, first, last)

\* A line without its leading and trailing whitespace.
Trimmed(l) ==
    LET ink == {i \in DOMAIN l : l[i] \notin Whitespace}
    IN  IF ink = {} THEN <<>> ELSE SubSeq(l, Min(ink), Max(ink))

\* A trimmed line that declares a dependency.
Declares(l) ==
    /\ Len(l) > 0
    /\ l[1] # "#"
    /\ \E i \in 1..(Len(l) - 1) : SubSeq(l, i, i + 1) = <<"=", "=">>

\* The dependency declarations of a text, in line order.
Declarations(t) ==
    LET n == Cardinality({i \in DOMAIN t : t[i] = "\n"}) + 1
    IN  SelectSeq([k \in 1..n |-> Trimmed(Line(t, k))], Declares)

\* The files of the tree that a profile lists in structure.
Retained(p) == {r \in Files : r.rel \in Range(p.structure)}

\* The file at a path of structure.
FileAt(rel) == CHOOSE e \in Files : e.rel = rel

\* A file left out of structure has left no trace in the other fields:
\* whatever of its extension, language or lines the profile holds is there on
\* account of a retained file.
ContributesNothing(p, e) ==
    /\ e.rel \notin Range(p.main_files)
    /\ e.rel \notin Range(p.config_files)
    /\ Ext(e) \in Range(p.file_types) => \E r \in Retained(p) : Ext(r) = Ext(e)
    /\ language_of(Ext(e)) \in Range(p.languages)
          => \E r \in Retained(p) : language_of(Ext(r)) = language_of(Ext(e))
    /\ p.project_type = language_of(Ext(e))
          => \E r \in Retained(p) : language_of(Ext(r)) = language_of(Ext(e))
    /\ \A l \in Range(Declarations(e.text)) :
          (IsManifest(e) /\ l \in Range(p.dependencies))
             => \E r \in Retained(p) : IsManifest(r) /\ l \in Range(Declarations(r.text))

\* A file the ignore policy lets through: no ignored directory on its path,
\* not over 1 MiB, stat-able and readable, no null byte in its first 1024 bytes.
PassesPolicy(e) ==
    /\ e.kind = "file"
    /\ ~HasIgnoredSegment(parts(e))
    /\ e.size <= 1048576
    /\ ~e.statErr
    /\ ~e.openErr
    /\ ~(e.firstNull \in 1..1024)

-----------------------------------------------------------------------------
(* C1 *)

\* C1: no entry of the returned structure has a path segment equal to an
\* ignored directory name, and every regular file that lies under such a
\* directory is absent from structure and contributes nothing to the other
\* fields of the profile.
C1_IgnoredDirectoriesExcluded ==
    \A p \in Returned :
        /\ \A i \in DOMAIN p.structure : ~HasIgnoredSegment(p.structure[i])
        /\ \A e \in Files :
              HasIgnoredSegment(e.rel)
                 => e.rel \notin Range(p.structure) /\ ContributesNothing(p, e)

\* A scan has returned for a tree that holds a file under an ignored
\* directory next to a file that was retained.
C1_Witness ==
    \E p \in Returned :
        /\ \E e \in Files : HasIgnoredSegment(e.rel) /\ e.size <= 1048576 /\ e.firstNull = 0
        /\ p.structure # <<>>

-----------------------------------------------------------------------------
(* C2 *)

\* C2: a file of more than 1,048,576 bytes never appears in structure and
\* contributes nothing to file_types, languages, main_files, config_files,
\* dependencies or project_type.
C2_LargeFilesExcluded ==
    \A p \in Returned :
        \A e \in Files :
            e.size > 1048576
               => e.rel \notin Range(p.structure) /\ ContributesNothing(p, e)

\* A scan has returned for a tree that holds a file over the limit, outside
\* every ignored directory, next to a retained file.
C2_Witness ==
    \E p \in Returned :
        /\ \E e \in Files : e.size > 1048576 /\ ~HasIgnoredSegment(parts(e))
        /\ p.structure # <<>>

-----------------------------------------------------------------------------
(* C3 *)

\* C3: a file with a null byte among its first 1024 bytes never appears in
\* structure and contributes nothing to the other fields, and the text files
\* of the same tree (no null byte, within the size limit, readable, outside
\* the ignored directories) are all in structure.
C3_BinaryFilesExcluded ==
    \A p \in Returned :
        \A e \in Files :
            e.firstNull \in 1..1024
               => /\ e.rel \notin Range(p.structure)
                  /\ ContributesNothing(p, e)
                  /\ \A t \in Files :
                        (PassesPolicy(t) /\ t.firstNull = 0) => t.rel \in Range(p.structure)

\* A scan has returned for a tree that holds a file whose 1024th byte is a
\* null byte, outside every ignored directory, and a text file beside it.
C3_Witness ==
    \E p \in Returned :
        /\ \E e \in Files :
              e.firstNull = 1024 /\ e.size <= 1048576 /\ ~HasIgnoredSegment(parts(e))
        /\ \E t \in Files : t.firstNull = 0 /\ t.rel \in Range(p.structure)

-----------------------------------------------------------------------------
(* C4 *)

\* C4: for a root path that does not exist the constructor raises ValueError
\* and no scan ever starts or returns a profile.
C4_MissingRootRaises ==
    rootKind = "missing"
       => /\ pc \in {"new", "raised"}
          /\ pc = "raised" => exc = "ValueError"
          /\ profile = <<>>

\* The constructor has been called on a path that does not exist.
C4_Witness == rootKind = "missing" /\ pc = "raised" /\ exc = "ValueError"

-----------------------------------------------------------------------------
(* C5 *)

\* C5: for a root path that exists but is not a directory the scan fails with
\* the invalid-repository error before any traversal: the analyzer is never
\* ready, never walks and never returns a profile.
C5_NotADirectoryRaises ==
    rootKind = "file"
       => /\ pc \in {"new", "raised"}
          /\ pc = "raised" => exc = "ValueError"
          /\ profile = <<>>

-----------------------------------------------------------------------------
(* C6 *)

\* C6: the only exception a scan raises is the invalid-root error: once the
\* root has been accepted no per-file error leaves analyze.
C6_OnlyInvalidRootRaises ==
    pc = "raised" => (exc = "ValueError" /\ rootKind # "dir")

-----------------------------------------------------------------------------
(* C7 *)

\* C7: a file that cannot be opened or read for the binary check is absent
\* from structure and from every other field of the profile, and it does not
\* stop the scan: analyze never raises at such a file, and the files beside it
\* that pass the ignore policy are in structure.
C7_UnreadableFilesIgnored ==
    /\ (pc = "raised" /\ idx \in DOMAIN entries)
          => ~(entries[idx].openErr /\ ~entries[idx].statErr)
    /\ \A p \in Returned :
          \A e \in Files :
              e.openErr
                 => /\ e.rel \notin Range(p.structure)
                    /\ ContributesNothing(p, e)
                    /\ \A t \in Files : PassesPolicy(t) => t.rel \in Range(p.structure)

\* A scan has returned for a tree in which a file that cannot be opened,
\* small and outside every ignored directory, was enumerated before a file
\* that was retained.
C7_Witness ==
    \E p \in Returned :
        /\ Len(entries) = 2
        /\ entries[1].kind = "file"
        /\ entries[1].openErr
        /\ entries[1].size <= 1048576
        /\ ~HasIgnoredSegment(parts(entries[1]))
        /\ p.structure = << entries[2].rel >>

-----------------------------------------------------------------------------
(* C8 *)

\* The language of a primary-language extension, "none" for any other.
PrimaryLanguage(sfx) ==
    IF sfx = <<".", "p", "y">> THEN "Python"
    ELSE IF sfx \in { <<".", "j", "s">>, <<".", "j", "s", "x">>,
                      <<".", "t", "s">>, <<".", "t", "s", "x">> } THEN "JavaScript"
    ELSE "none"

\* The positions of structure that hold a primary-language file.
PrimaryPositions(p) ==
    {i \in DOMAIN p.structure : PrimaryLanguage(lower(suffix(p.structure[i]))) # "none"}

\* C8: project_type of the returned profile is the language of the first
\* retained primary-language file in traversal order, and "unknown" when no
\* retained file has a primary-language extension.
C8_ProjectTypeIsFirstPrimary ==
    \A p \in Returned :
        p.project_type =
            IF PrimaryPositions(p) = {} THEN "unknown"
            ELSE PrimaryLanguage(lower(suffix(p.structure[Min(PrimaryPositions(p))])))

\* A scan has returned with two retained files of different primary
\* languages.
C8_Witness ==
    \E p \in Returned :
        /\ Len(p.structure) = 2
        /\ PrimaryPositions(p) = {1, 2}
        /\ PrimaryLanguage(lower(suffix(p.structure[1])))
              # PrimaryLanguage(lower(suffix(p.structure[2])))

-----------------------------------------------------------------------------
(* C9 *)

\* The declarations of the manifests among the given paths, path after path;
\* with onlyReadable, of the manifests whose text can be read.
RECURSIVE ManifestDeclarations(_, _)
ManifestDeclarations(paths, onlyReadable) ==
    IF paths = <<>> THEN <<>>
    ELSE LET e == FileAt(Head(paths))
         IN  (IF IsManifest(e) /\ (~onlyReadable \/ ~e.readErr)
              THEN Declarations(e.text)
              ELSE <<>>)
             \o ManifestDeclarations(Tail(paths), onlyReadable)

\* C9 (as stated): dependencies is exactly the sequence, in traversal order
\* of the files and line order within each, of the trimmed lines of every
\* retained requirements.txt that are non-empty, do not start with '#' and
\* contain '=='.
C9_DependenciesOfEveryManifest ==
    \A p \in Returned : p.dependencies = ManifestDeclarations(p.structure, FALSE)

\* C9 (amended): dependencies is exactly that sequence taken over the retained
\* requirements.txt files whose text could be read; a manifest whose read
\* fails contributes no line.
C9_DependenciesOfReadableManifests ==
    \A p \in Returned : p.dependencies = ManifestDeclarations(p.structure, TRUE)

\* A scan has returned with two readable manifests retained, one of them with
\* a comment, a blank line, a line to trim and a line without '=='.
C9_Witness ==
    \E p \in Returned :
        /\ Len(p.structure) = 2
        /\ \A i \in 1..2 : IsManifest(FileAt(p.structure[i])) /\ ~FileAt(p.structure[i]).readErr
        /\ Len(p.dependencies) = 3

-----------------------------------------------------------------------------
(* C10 *)

\* C10: a retained requirements.txt whose read fails does not fail the scan:
\* analyze never raises at it, the file is in structure and in config_files,
\* and dependencies holds the declarations of the other manifests only.
C10_ManifestReadFailureSwallowed ==
    /\ (pc = "raised" /\ idx \in DOMAIN entries)
          => ~(IsManifest(entries[idx]) /\ entries[idx].readErr /\ PassesPolicy(entries[idx]))
    /\ \A p \in Returned :
          \A e \in Files :
              (IsManifest(e) /\ e.readErr /\ PassesPolicy(e))
                 => /\ e.rel \in Range(p.structure)
                    /\ e.rel \in Range(p.config_files)
                    /\ \A i \in DOMAIN p.dependencies :
                          \E r \in Retained(p) \ {e} :
                              IsManifest(r) /\ p.dependencies[i] \in Range(Declarations(r.text))
                    /\ \A r \in Retained(p) :
                          (IsManifest(r) /\ ~r.readErr)
                             => Range(Declarations(r.text)) \subseteq Range(p.dependencies)

\* A scan has returned for a tree with a manifest whose read failed although
\* it holds declarations, next to a manifest that was read.
C10_Witness ==
    \E p \in Returned :
        /\ \E e \in Retained(p) : IsManifest(e) /\ e.readErr /\ Declarations(e.text) # <<>>
        /\ p.dependencies # <<>>

-----------------------------------------------------------------------------
(* C11 *)

\* The entry-point file names the specification lists.
EntryPointNames ==
    { <<"m", "a", "i", "n", ".", "p", "y">>,
      <<"a", "p", "p", ".", "p", "y">>,
      <<"i", "n", "d", "e", "x", ".", "p", "y">>,
      <<"r", "u", "n", ".", "p", "y">> }

IsEntryPointPath(path) == lower(name(path)) \in EntryPointNames

\* C11: main_files is exactly the subsequence of structure, same paths in the
\* same order, of the files whose name, case ignored, is main.py, app.py,
\* index.py or run.py.
C11_MainFilesAreEntryPoints ==
    \A p \in Returned : p.main_files = SelectSeq(p.structure, IsEntryPointPath)

\* A scan has returned with two retained entry points, one of them written
\* with capitals.
C11_Witness ==
    \E p \in Returned :
        /\ Len(p.main_files) = 2
        /\ \E i \in 1..2 : name(p.main_files[i]) \notin EntryPointNames

-----------------------------------------------------------------------------
(* C12 *)

\* The configuration file names the specification lists.
ConfigurationNames ==
    { <<"r", "e", "q", "u", "i", "r", "e", "m", "e", "n", "t", "s", ".", "t", "x", "t">>,
      <<"p", "a", "c", "k", "a", "g", "e", ".", "j", "s", "o", "n">>,
      <<"s", "e", "t", "u", "p", ".", "p", "y">>,
      <<"p", "y", "p", "r", "o", "j", "e", "c", "t", ".", "t", "o", "m", "l">>,
      <<"d", "o", "c", "k", "e", "r", "f", "i", "l", "e">>,
      <<"d", "o", "c", "k", "e", "r", "-", "c", "o", "m", "p", "o", "s", "e", ".", "y", "m", "l">>,
      <<".", "e", "n", "v", ".", "e", "x", "a", "m", "p", "l", "e">>,
      <<"c", "o", "n", "f", "i", "g", ".", "j", "s", "o", "n">> }

IsConfigurationPath(path) == lower(name(path)) \in ConfigurationNames

\* C12: config_files is exactly the subsequence of structure, same paths in
\* the same order, of the files whose name, case ignored, is one of the eight
\* configuration names.
C12_ConfigFilesAreConfigurations ==
    \A p \in Returned : p.config_files = SelectSeq(p.structure, IsConfigurationPath)

\* A scan has returned with two retained configuration files, one of them
\* written with capitals.
C12_Witness ==
    \E p \in Returned :
        /\ Len(p.config_files) = 2
        /\ \E i \in 1..2 : name(p.config_files[i]) \notin ConfigurationNames

-----------------------------------------------------------------------------
(* C13 *)

\* The extension table of the specification, "none" for an extension it
\* does not list.
LanguageTable(ext) ==
    CASE ext = <<".", "p", "y">> -> "Python"
      [] ext \in { <<".", "j", "s">>, <<".", "j", "s", "x">>,
                   <<".", "t", "s">>, <<".", "t", "s", "x">> } -> "JavaScript"
      [] ext \in { <<".", "h", "t", "m", "l">>, <<".", "h", "t", "m">> } -> "HTML"
      [] ext = <<".", "c", "s", "s">> -> "CSS"
      [] ext = <<".", "j", "s", "o", "n">> -> "JSON"
      [] ext = <<".", "m", "d">> -> "Markdown"
      [] ext \in { <<".", "y", "m", "l">>, <<".", "y", "a", "m", "l">> } -> "YAML"
      [] ext = <<".", "t", "x", "t">> -> "Text"
      [] OTHER -> "none"

\* The lower-cased extension of a path of structure.
ExtOf(path) == lower(suffix(path))

\* C13: languages is exactly the set of the languages the extension table
\* gives to the lower-cased extensions of the files in structure.
C13_LanguagesFollowTable ==
    \A p \in Returned :
        Range(p.languages)
           = {LanguageTable(ExtOf(path)) : path \in Range(p.structure)} \ {"none"}

\* A scan has returned with a language in languages, for a tree that also
\* holds a file left out of structure whose language is not in languages.
C13_Witness ==
    \E p \in Returned :
        /\ p.languages # <<>>
        /\ \E e \in Files :
              /\ e.rel \notin Range(p.structure)
              /\ LanguageTable(Ext(e)) # "none"
              /\ LanguageTable(Ext(e)) \notin Range(p.languages)

-----------------------------------------------------------------------------
(* C14 *)

\* C14: file_types lists, each once, exactly the non-empty lower-cased
\* extensions of the files in structure; a file whose extension the table does
\* not list has its extension in file_types, and languages and project_type
\* are accounted for by the other files.
C14_FileTypesAreExtensions ==
    \A p \in Returned :
        /\ Range(p.file_types) = {ExtOf(path) : path \in Range(p.structure)} \ {<<>>}
        /\ Len(p.file_types) = Cardinality(Range(p.file_types))
        /\ \A i \in DOMAIN p.structure :
              LanguageTable(ExtOf(p.structure[i])) = "none"
                 => LET others == {LanguageTable(ExtOf(p.structure[j])) :
                                      j \in DOMAIN p.structure \ {i}} \ {"none"}
                    IN  /\ ExtOf(p.structure[i]) # <<>>
                           => ExtOf(p.structure[i]) \in Range(p.file_types)
                        /\ Range(p.languages) \subseteq others
                        /\ p.project_type \in {"unknown"} \cup others

\* A scan has returned with a retained file of an extension the table does
\* not list, written with capitals or not, next to a file of a listed one.
C14_Witness ==
    \E p \in Returned :
        /\ Len(p.structure) = 2
        /\ p.languages # <<>>
        /\ \E i \in 1..2 :
              /\ LanguageTable(ExtOf(p.structure[i])) = "none"
              /\ ExtOf(p.structure[i]) \in Range(p.file_types)

-----------------------------------------------------------------------------
(* C15 *)

\* C15: the profiles of two scans of the same unchanged tree have the same
\* file_types, languages, main_files, config_files and dependencies as sets,
\* the same structure in the same order and the same project_type.
C15_RescanGivesSameProfile ==
    \A i, j \in DOMAIN profile :
        /\ Range(profile[i].file_types) = Range(profile[j].file_types)
        /\ Range(profile[i].languages) = Range(profile[j].languages)
        /\ Range(profile[i].main_files) = Range(profile[j].main_files)
        /\ Range(profile[i].config_files) = Range(profile[j].config_files)
        /\ Range(profile[i].dependencies) = Range(profile[j].dependencies)
        /\ profile[i].structure = profile[j].structure
        /\ profile[i].project_type = profile[j].project_type

\* The same analyzer has returned twice for a tree with two retained files,
\* one of them a manifest with declarations.
C15_Witness ==
    /\ Len(profile) = 2
    /\ Len(profile[2].structure) = 2
    /\ profile[2].dependencies # <<>>
    /\ profile[2].file_types # <<>>

-----------------------------------------------------------------------------
(* C16 *)

\* C16: the order of structure is a function of the contents of the tree:
\* scans of the same files give the same structure, whatever the order in
\* which the filesystem enumerates them.
C16_StructureOrderFixed ==
    \A i, j \in DOMAIN profile : profile[i].structure = profile[j].structure

-----------------------------------------------------------------------------
(* C17 *)

\* C17: the profile of an empty directory has file_types, languages,
\* structure, main_files, config_files and dependencies empty and project_type
\* "unknown".
C17_EmptyDirectoryProfile ==
    (rootKind = "dir" /\ entries = <<>>)
       => \A p \in Returned :
              /\ p.file_types = <<>>
              /\ p.languages = <<>>
              /\ p.structure = <<>>
              /\ p.main_files = <<>>
              /\ p.config_files = <<>>
              /\ p.dependencies = <<>>
              /\ p.project_type = "unknown"

\* A scan of an empty directory has returned.
C17_Witness == rootKind = "dir" /\ entries = <<>> /\ pc = "returned" /\ Len(profile) = 1

-----------------------------------------------------------------------------
(* C18 *)

\* C18: a returned profile has exactly the keys file_types, languages,
\* structure, main_files, config_files, dependencies and project_type; the
\* first six are sequences (file_types and languages are lists on return, each
\* element once) and project_type is a string.
C18_ProfileShape ==
    \A p \in Returned :
        /\ DOMAIN p = {"file_types", "languages", "structure", "main_files",
                       "config_files", "dependencies", "project_type"}
        /\ DOMAIN p.file_types = 1..Len(p.file_types)
        /\ DOMAIN p.languages = 1..Len(p.languages)
        /\ DOMAIN p.structure = 1..Len(p.structure)
        /\ DOMAIN p.main_files = 1..Len(p.main_files)
        /\ DOMAIN p.config_files = 1..Len(p.config_files)
        /\ DOMAIN p.dependencies = 1..Len(p.dependencies)
        /\ Cardinality(Range(p.file_types)) = Len(p.file_types)
        /\ Cardinality(Range(p.languages)) = Len(p.languages)
        /\ p.project_type \in STRING

\* A scan has returned a profile with two file types and two languages.
C18_Witness ==
    \E p \in Returned : Len(p.file_types) = 2 /\ Len(p.languages) = 2

-----------------------------------------------------------------------------
(* C19 *)

\* C19: no step of a scan changes the filesystem: the root, the entries under
\* it, their sizes, contents and accessibility stay as they were.
C19_ScanReadsOnly ==
    [][rootKind' = rootKind /\ rootParts' = rootParts /\ entries' = entries]_vars

\* A scan that stat-ed, opened and read files, a manifest among them, has
\* returned.
C19_Witness ==
    \E p \in Returned : Len(p.structure) = 2 /\ p.dependencies # <<>>

-----------------------------------------------------------------------------
(* C20 *)

\* The arguments DocumentationBot rejects, as the specification lists them.
BadBotArguments ==
    \/ rootKind = "missing"
    \/ botArgs.detail_level \notin {"low", "medium", "high"}
    \/ botArgs.max_llm_calls < 1

\* C20: constructing a DocumentationBot raises ValueError when the repository
\* path does not exist, when detail_level is not low, medium or high, or when
\* max_llm_calls is zero or negative; otherwise it succeeds and the bot holds
\* repo_path, detail_level and max_llm_calls as given.
C20_BotConstructorValidates ==
    \A b \in Range(bot) :
        IF BadBotArguments
        THEN b.outcome = "ValueError"
        ELSE /\ b.outcome = "constructed"
             /\ b.attrs.repo_path = rootParts
             /\ b.attrs.detail_level = botArgs.detail_level
             /\ b.attrs.max_llm_calls = botArgs.max_llm_calls

\* A bot has been constructed with the smallest accepted number of calls.
C20_Witness ==
    \E b \in Range(bot) : b.outcome = "constructed" /\ botArgs.max_llm_calls = 1

-----------------------------------------------------------------------------
(* C24 *)

\* C24: a scan starts with project_type "unknown", and once project_type
\* holds a language no later step of the scan changes it.
C24_ProjectTypeSetOnce ==
    [][ /\ (pc = "ready" /\ pc' = "walking") => result'.project_type = "unknown"
        /\ (pc = "walking" /\ result.project_type # "unknown")
              => result'.project_type = result.project_type ]_vars

\* The loop has gone past two retained primary-language files of different
\* languages, the second one a Python file.
C24_Witness ==
    /\ pc = "walking"
    /\ Len(result.structure) = 2
    /\ PrimaryLanguage(lower(suffix(result.structure[1]))) = "JavaScript"
    /\ PrimaryLanguage(lower(suffix(result.structure[2]))) = "Python"
    /\ result.project_type = "JavaScript"

-----------------------------------------------------------------------------
(* C25 *)

\* A file the ignore policy lets through, the policy being applied to the
\* path below the root.
PassesPolicyBelowRoot(e) ==
    /\ e.kind = "file"
    /\ ~HasIgnoredSegment(e.rel)
    /\ e.size <= 1048576
    /\ ~e.statErr
    /\ ~e.openErr
    /\ ~(e.firstNull \in 1..1024)

\* C25: every regular file that passes the ignore policy, judged on its
\* path below the root, is in structure exactly once, whatever the
\* directories above the root are called.
C25_PassingFilesRetained ==
    \A p \in Returned :
        \A e \in Files :
            PassesPolicyBelowRoot(e)
               => Cardinality({i \in DOMAIN p.structure : p.structure[i] = e.rel}) = 1

-----------------------------------------------------------------------------
(* C21 *)

\* The requests sent to the LLM API so far.
Requests == Range(llm_log)

\* C21: a generator starts with llm_calls_made = 0, llm_calls_made never
\* exceeds max_llm_calls, and every request was sent while llm_calls_made
\* was below max_llm_calls.
C21_BudgetNeverExceeded ==
    /\ (lastCall.op = "__init__" /\ generator # <<>>) => generator[1].llm_calls_made = 0
    /\ generator # <<>> => generator[1].llm_calls_made <= generator[1].max_llm_calls
    /\ \A r \in Requests : r.made < generator[1].max_llm_calls

\* C21 as amended: a generator starts with llm_calls_made = 0; llm_calls_made
\* never exceeds max_llm_calls unless max_llm_calls is negative, and then it
\* stays 0; every request was sent while llm_calls_made was below
\* max_llm_calls.
C21_BudgetRespected ==
    /\ (lastCall.op = "__init__" /\ generator # <<>>) => generator[1].llm_calls_made = 0
    /\ generator # <<>>
          => \/ generator[1].llm_calls_made <= generator[1].max_llm_calls
             \/ generator[1].max_llm_calls < 0 /\ generator[1].llm_calls_made = 0
    /\ \A r \in Requests : r.made < generator[1].max_llm_calls

\* The budget has been used up by requests that returned, and a further
\* _call_llm has been refused.
C21_Witness ==
    /\ generator # <<>>
    /\ generator[1].max_llm_calls >= 1
    /\ generator[1].llm_calls_made = generator[1].max_llm_calls
    /\ lastCall.op = "_call_llm"
    /\ lastCall.exc = "ValueError"

-----------------------------------------------------------------------------
(* C22 *)

\* The last call was of the method op and returned normally.
Returns(op) == lastCall.op = op /\ lastCall.exc = "none"

\* The last call found the budget not used up when it started.
HadBudget == lastCall.made < generator[1].max_llm_calls

\* C22: whenever generate_documentation_files returns normally, docs is a
\* directory under the repository path.
C22_DocsDirectoryExists ==
    Returns("generate_documentation_files") => disk.docs = "dir"

\* C22 as amended: whenever generate_documentation_files returns normally
\* from a call it began with llm_calls_made below max_llm_calls, docs is a
\* directory under the repository path.
C22_DocsDirectoryExistsWithinBudget ==
    (Returns("generate_documentation_files") /\ HadBudget) => disk.docs = "dir"

\* generate_documentation_files has returned normally, within budget, in a
\* repository that had no docs.
C22_Witness ==
    /\ Returns("generate_documentation_files")
    /\ HadBudget
    /\ lastCall.disk.docs = "absent"
    /\ disk.docs = "dir"

-----------------------------------------------------------------------------
(* C23 *)

\* README.md exists and holds the text of the request last sent, which was
\* sent for README.md and returned.
ReadmeIsLastReply ==
    /\ llm_log # <<>>
    /\ llm_log[Len(llm_log)].doc = "README.md"
    /\ ~llm_log[Len(llm_log)].raised
    /\ disk.readme = << llm_log[Len(llm_log)].text >>

\* C23: whenever generate_readme returns normally, README.md exists at the
\* repository root and its content is the text returned by the LLM call made
\* for it.
C23_ReadmeWritten ==
    Returns("generate_readme") => ReadmeIsLastReply

\* C23 as amended: whenever generate_readme returns normally from a call it
\* began with llm_calls_made below max_llm_calls, README.md exists at the
\* repository root and its content is the text returned by the LLM call made
\* for it.
C23_ReadmeWrittenWithinBudget ==
    (Returns("generate_readme") /\ HadBudget) => ReadmeIsLastReply

\* generate_readme has returned normally, within budget, in a repository
\* that had a README.md of another content.
C23_Witness ==
    /\ Returns("generate_readme")
    /\ HadBudget
    /\ lastCall.disk.readme = << OldReadme >>
    /\ disk.readme # lastCall.disk.readme

-----------------------------------------------------------------------------
(* C26 *)

\* The documents in the order they are generated.
DocumentOrder == <<"README.md", "architecture.md", "api.md", "setup.md", "usage.md">>

\* The content of a document on a disk, <<>> when it does not exist.
ContentOn(d, doc) == IF doc = "README.md" THEN d.readme ELSE d.files[doc]

\* generate_documentation has been called and has ended.
Documented == lastCall.op = "generate_documentation"

\* The budget of the bot.
Budget == bot[1].attrs.max_llm_calls

\* C26: when every LLM call succeeds, generate_documentation on a
\* repository without README.md, with a usable LLM client and a budget of k
\* calls, returns normally having made exactly min(k, 5) LLM calls and
\* written exactly the first min(k, 5) documents of the fixed order.
C26_FirstDocumentsWritten ==
    ( /\ Documented
      /\ rootKind = "dir"
      /\ lastCall.disk.readme = <<>>
      /\ environ.openai /\ environ.api_key
      /\ \A r \in Requests : ~r.raised )
    => /\ lastCall.exc = "none"
       /\ Len(llm_log) = Min({Budget, 5})
       /\ \A i \in 1..5 : ContentOn(disk, DocumentOrder[i]) # <<>> <=> i <= Min({Budget, 5})

-----------------------------------------------------------------------------
(* C27 *)

\* C27: when README.md exists, generate_documentation sends no request for
\* the README and leaves README.md as it was; the requests for the files of
\* docs start from a counter of 0, and when they all succeed and the call
\* returns, min(k, 4) of them were made.
C27_ExistingReadmeKept ==
    (Documented /\ lastCall.disk.readme # <<>>)
    => /\ \A r \in Requests : r.doc # "README.md"
       /\ disk.readme = lastCall.disk.readme
       /\ llm_log # <<>> => llm_log[1].made = 0
       /\ (lastCall.exc = "none" /\ \A r \in Requests : ~r.raised)
             => Len(llm_log) = Min({Budget, 4})

\* generate_documentation has returned in a repository that had a README.md,
\* with a budget of four calls, all spent on the four files of docs.
C27_Witness ==
    /\ Documented
    /\ lastCall.exc = "none"
    /\ lastCall.disk.readme = << OldReadme >>
    /\ Budget = 4
    /\ Len(llm_log) = 4
    /\ \A d \in DOMAIN disk.files : disk.files[d] # <<>>

-----------------------------------------------------------------------------
(* C28 *)

\* C28: when a request to the LLM raises during generate_documentation, the
\* exception leaves generate_documentation, the counter is what it was when
\* the request was sent, the document the request was for is as it was
\* before the call, and no request follows the failed one.
C28_FailedCallStopsGeneration ==
    \A i \in DOMAIN llm_log :
        (Documented /\ llm_log[i].raised)
        => /\ lastCall.exc = "APIError"
           /\ generator[1].llm_calls_made = llm_log[i].made
           /\ ContentOn(disk, llm_log[i].doc) = ContentOn(lastCall.disk, llm_log[i].doc)
           /\ i = Len(llm_log)

\* The third request of generate_documentation has raised, after README.md
\* and docs/architecture.md were written.
C28_Witness ==
    /\ Documented
    /\ Len(llm_log) = 3
    /\ llm_log[3].raised
    /\ disk.readme # <<>>
    /\ disk.files["architecture.md"] # <<>>
    /\ disk.files["api.md"] = <<>>

====
